---- MODULE Spec2Model ----
(***************************************************************************)
(* Model of quant_engine.py: the order-book walk calculate_effective_price,*)
(* compute_trade_metrics and BetaModel.parameters.                         *)
(*                                                                         *)
(* Numbers.  The program computes with Python floats (binary floating      *)
(* point, round to nearest, ties to even).  A float is modelled as the     *)
(* rational <<n, d>> (d > 0, lowest terms) it denotes, and every           *)
(* arithmetic operation of the code rounds its exact result to a           *)
(* significand of MantBits bits (Round below).  A double carries 53 bits;  *)
(* MantBits is the bound that keeps the numbers small.  The exponent is    *)
(* unbounded: no input of the model comes near overflow or underflow.      *)
(***************************************************************************)
EXTENDS Integers, Sequences, FiniteSets, TLC

\* Bits of significand of the modelled float format.
MantBits == 7
\* Longest side of an order book the model draws.
MaxLevels == 2

(***************************************************************************)
(* Exact rationals.                                                        *)
(***************************************************************************)
Abs(x) == IF x < 0 THEN -x ELSE x

RECURSIVE GCD(_, _)
GCD(a, b) == IF b = 0 THEN a ELSE GCD(b, a % b)

RECURSIVE Pow2(_)
Pow2(k) == IF k = 0 THEN 1 ELSE 2 * Pow2(k - 1)

\* The rational n/d (d # 0) in lowest terms with a positive denominator.
Rat(n, d) ==
    LET s == IF d < 0 THEN -1 ELSE 1
        g == GCD(Abs(n), Abs(d))
    IN  <<(s * n) \div g, (s * d) \div g>>

Zero == <<0, 1>>
One == <<1, 1>>
Hundred == <<100, 1>>

RNeg(a) == <<-a[1], a[2]>>

RAdd(a, b) ==
    LET g == GCD(a[2], b[2])
        l == (a[2] \div g) * b[2]
    IN  Rat(a[1] * (l \div a[2]) + b[1] * (l \div b[2]), l)

RSub(a, b) == RAdd(a, RNeg(b))

RMul(a, b) ==
    LET g1 == GCD(Abs(a[1]), b[2])
        g2 == GCD(Abs(b[1]), a[2])
    IN  Rat((a[1] \div g1) * (b[1] \div g2), (a[2] \div g2) * (b[2] \div g1))

RInv(a) == IF a[1] > 0 THEN <<a[2], a[1]>> ELSE <<-a[2], -a[1]>>

RDiv(a, b) == RMul(a, RInv(b))

RLeq(a, b) == RSub(a, b)[1] <= 0
RLt(a, b) == RSub(a, b)[1] < 0
RMax(a, b) == IF RLt(a, b) THEN b ELSE a
RMin(a, b) == IF RLt(b, a) THEN b ELSE a

(***************************************************************************)
(* Floating point: round to nearest, ties to even, MantBits bits.          *)
(***************************************************************************)
MantLow == Pow2(MantBits - 1)
MantHigh == Pow2(MantBits)

\* n/d lies in [2^(MantBits-1), 2^MantBits): its nearest integer.
Mant(n, d) ==
    LET q == n \div d
        r == n % d
    IN  IF 2 * r > d \/ (2 * r = d /\ q % 2 = 1) THEN q + 1 ELSE q

\* n/d > 0 scaled by up/down (powers of 2) into the significand's range,
\* rounded there and scaled back.
RECURSIVE RoundScaled(_, _, _, _)
RoundScaled(n, d, up, down) ==
    IF n \div d < MantLow THEN RoundScaled(2 * n, d, 2 * up, down)
    ELSE IF n \div d >= MantHigh THEN RoundScaled(n, 2 * d, up, 2 * down)
    ELSE Rat(Mant(n, d) * down, up)

RoundPos(n, d) == RoundScaled(n, d, 1, 1)

Round(x) ==
    IF x[1] = 0 THEN Zero
    ELSE IF x[1] > 0 THEN RoundPos(x[1], x[2])
         ELSE RNeg(RoundPos(-x[1], x[2]))

\* The operation whose exact result is x rounds (IEEE's "inexact").
Rounds(x) == Round(x) # x

FAdd(a, b) == Round(RAdd(a, b))
FSub(a, b) == Round(RSub(a, b))
FMul(a, b) == Round(RMul(a, b))
FDiv(a, b) == Round(RDiv(a, b))

\* numpy.clip(x, lo, hi) on scalars: it selects, and never rounds.
Clip(x, lo, hi) == RMin(RMax(x, lo), hi)

(***************************************************************************)
(* State.                                                                  *)
(***************************************************************************)
VARIABLES
    orderbook,            \* Orderbook: [bids, asks], sequences of [price, size]
    side,                 \* Side.BUY or Side.SELL
    trade_size_usd,       \* the requested notional
    pc,                   \* "start", "loop", "post", "done"; "idle" when unused
    idx,                  \* the 1-based position of the next level of the for loop
    remaining_notional,
    total_cost,
    total_shares,
    outcome,              \* what the call returned or raised
    rounded,              \* some operation of the call rounded its result
    taken,                \* shares taken from each level read so far (0: skipped)
    metrics_in,           \* arguments of compute_trade_metrics
    scenario,             \* the TradeScenario it returned
    beta_in,              \* the fields of a BetaModel
    beta_out              \* what BetaModel.parameters returned

vars == <<orderbook, side, trade_size_usd, pc, idx, remaining_notional,
          total_cost, total_shares, outcome, rounded, taken,
          metrics_in, scenario, beta_in, beta_out>>

walk_vars == <<orderbook, side, trade_size_usd, pc, idx, remaining_notional,
               total_cost, total_shares, outcome, rounded, taken>>

BUY == "buy"
SELL == "sell"

\* A local not yet assigned, a call that has not returned.
Unset == <<0, 0>>
NoOutcome == [kind |-> "none"]
NoCall == [kind |-> "none"]

(***************************************************************************)
(* Inputs.  Every number is representable with MantBits bits.              *)
(***************************************************************************)
Level(p, s) == [price |-> p, size |-> s]

\* Levels as the data model describes them: price in (0,1], size >= 0.
ValidLevels ==
    {Level(<<1, 4>>, <<0, 1>>), Level(<<1, 4>>, <<2, 1>>),
     Level(<<3, 4>>, <<2, 1>>), Level(<<3, 4>>, <<5, 1>>),
     Level(One, Hundred)}

\* Levels Orderbook accepts (models.py validates nothing) outside that range.
PhantomLevels == {Level(Zero, <<2, 1>>), Level(<<-1, 2>>, <<-2, 1>>)}

LevelSet == ValidLevels \cup PhantomLevels

Books == UNION {[1..k -> LevelSet] : k \in 0..MaxLevels}

\* The side of the book the call does not walk.
OtherBook == <<Level(<<3, 4>>, <<5, 1>>)>>

\* 2^(MantBits-1) + 1 is the least integer whose difference with 1/2 rounds.
Notionals ==
    {<<-1, 1>>, Zero, <<1, 2>>, One, <<2, 1>>, <<4, 1>>, <<6, 1>>,
     <<Pow2(MantBits - 1) + 1, 1>>}

(***************************************************************************)
(* calculate_effective_price                                               *)
(***************************************************************************)
Reverse(q) == [i \in 1..Len(q) |-> q[Len(q) + 1 - i]]

\* Mutant: the chosen side is walked from its worst price.
SelectLevels_WorstFirst(book, sd) ==
    IF sd = BUY THEN Reverse(book.asks) ELSE Reverse(book.bids)

\* levels = orderbook.asks if side == Side.BUY else orderbook.bids
SelectLevels(book, sd) == IF sd = BUY THEN book.asks ELSE book.bids

\* level_notional = level.price * level.size
LevelNotional(level) == FMul(level.price, level.size)

\* Mutant: only a negative notional is skipped.
SkipsLevel_Strict(level) == RLt(LevelNotional(level), Zero)

\* if level_notional <= 0: continue
SkipsLevel(level) == RLeq(LevelNotional(level), Zero)

\* if remaining_notional <= level_notional: ... break
FillsAt(remaining, level) == RLeq(remaining, LevelNotional(level))

\* Mutant: the level that completes the order gives its full size.
FillShares_FullLevel(remaining, level) == level.size

\* fill_shares = remaining_notional / level.price
FillShares(remaining, level) == FDiv(remaining, level.price)

\* The three running totals, with the two ghosts the claims read.
Totals(rem, cost, shares, rnd, tk) ==
    [remaining_notional |-> rem, total_cost |-> cost, total_shares |-> shares,
     rounded |-> rnd, taken |-> tk]

StartTotals(n) == Totals(n, Zero, Zero, FALSE, <<>>)

\* The level's product rounded.
NotionalRounds(level) == Rounds(RMul(level.price, level.size))

\* continue: nothing is assigned.
SkipTotals(t, level) ==
    [t EXCEPT !.rounded = @ \/ NotionalRounds(level), !.taken = Append(@, Zero)]

\* total_cost += remaining_notional; total_shares += fill_shares;
\* remaining_notional = 0.0
FillTotals(t, level) ==
    LET fill_shares == FillShares(t.remaining_notional, level) IN
    Totals(Zero,
           FAdd(t.total_cost, t.remaining_notional),
           FAdd(t.total_shares, fill_shares),
           \/ t.rounded
           \/ NotionalRounds(level)
           \/ Rounds(RDiv(t.remaining_notional, level.price))
           \/ Rounds(RAdd(t.total_cost, t.remaining_notional))
           \/ Rounds(RAdd(t.total_shares, fill_shares)),
           Append(t.taken, fill_shares))

\* Mutant: the whole level is taken and remaining_notional is left as it was.
ConsumeTotals_KeepsRemaining(t, level) ==
    LET level_notional == LevelNotional(level) IN
    Totals(t.remaining_notional,
           FAdd(t.total_cost, level_notional),
           FAdd(t.total_shares, level.size),
           \/ t.rounded
           \/ NotionalRounds(level)
           \/ Rounds(RAdd(t.total_cost, level_notional))
           \/ Rounds(RAdd(t.total_shares, level.size)),
           Append(t.taken, level.size))

\* total_cost += level_notional; total_shares += level.size;
\* remaining_notional -= level_notional
ConsumeTotals(t, level) ==
    LET level_notional == LevelNotional(level) IN
    Totals(FSub(t.remaining_notional, level_notional),
           FAdd(t.total_cost, level_notional),
           FAdd(t.total_shares, level.size),
           \/ t.rounded
           \/ NotionalRounds(level)
           \/ Rounds(RSub(t.remaining_notional, level_notional))
           \/ Rounds(RAdd(t.total_cost, level_notional))
           \/ Rounds(RAdd(t.total_shares, level.size)),
           Append(t.taken, level.size))

\* One pass of the for loop's body over `level`.
LoopBody(t, level) ==
    IF SkipsLevel(level) THEN SkipTotals(t, level)
    ELSE IF FillsAt(t.remaining_notional, level) THEN FillTotals(t, level)
    ELSE ConsumeTotals(t, level)

\* Mutant: a book that runs out still returns the price of what it filled.
PostLoop_BestEffort(t) ==
    IF RLeq(t.total_shares, Zero)
    THEN [kind |-> "OrderbookDepthError",
          msg |-> "Orderbook has no liquidity",
          rounded |-> t.rounded, taken |-> t.taken]
    ELSE [kind |-> "return",
          price |-> FDiv(t.total_cost, t.total_shares),
          rounded |-> t.rounded \/ Rounds(RDiv(t.total_cost, t.total_shares)),
          taken |-> t.taken]

\* The statements after the loop: the two raises and the return.
PostLoop(t) ==
    IF RLt(Zero, t.remaining_notional)
    THEN [kind |-> "OrderbookDepthError",
          msg |-> "Orderbook depth insufficient for trade size",
          rounded |-> t.rounded, taken |-> t.taken]
    ELSE IF RLeq(t.total_shares, Zero)
    THEN [kind |-> "OrderbookDepthError",
          msg |-> "Orderbook has no liquidity",
          rounded |-> t.rounded, taken |-> t.taken]
    ELSE [kind |-> "return",
          price |-> FDiv(t.total_cost, t.total_shares),
          rounded |-> t.rounded \/ Rounds(RDiv(t.total_cost, t.total_shares)),
          taken |-> t.taken]

\* Mutant: a zero size passes the check.
RejectsSize_Strict(n) == RLt(n, Zero)

\* if trade_size_usd <= 0: raise ValueError
RejectsSize(n) == RLeq(n, Zero)

InvalidSize ==
    [kind |-> "ValueError", msg |-> "Trade size must be positive",
     rounded |-> FALSE, taken |-> <<>>]

\* The for loop from position i on, to its break or to the end of the list.
RECURSIVE WalkFrom(_, _, _)
WalkFrom(levels, i, t) ==
    IF i > Len(levels) THEN t
    ELSE IF ~SkipsLevel(levels[i]) /\ FillsAt(t.remaining_notional, levels[i])
         THEN LoopBody(t, levels[i])
         ELSE WalkFrom(levels, i + 1, LoopBody(t, levels[i]))

\* The whole call as a function of its arguments.
calculate_effective_price(book, sd, n) ==
    IF RejectsSize(n) THEN InvalidSize
    ELSE PostLoop(WalkFrom(SelectLevels(book, sd), 1, StartTotals(n)))

(***************************************************************************)
(* The call, one statement at a time.                                      *)
(***************************************************************************)
Cur == Totals(remaining_notional, total_cost, total_shares, rounded, taken)

Levels == SelectLevels(orderbook, side)

other_idle ==
    /\ metrics_in = NoCall /\ scenario = NoCall
    /\ beta_in = NoCall /\ beta_out = NoCall

Init ==
    /\ \E lv \in Books, sd \in {BUY, SELL} :
          /\ side = sd
          /\ orderbook = IF sd = BUY THEN [asks |-> lv, bids |-> OtherBook]
                                     ELSE [asks |-> OtherBook, bids |-> lv]
    /\ trade_size_usd \in Notionals
    /\ pc = "start"
    /\ idx = 0
    /\ remaining_notional = Unset
    /\ total_cost = Unset
    /\ total_shares = Unset
    /\ outcome = NoOutcome
    /\ rounded = FALSE
    /\ taken = <<>>
    /\ other_idle

SetTotals(t) ==
    /\ remaining_notional' = t.remaining_notional
    /\ total_cost' = t.total_cost
    /\ total_shares' = t.total_shares
    /\ rounded' = t.rounded
    /\ taken' = t.taken

\* if trade_size_usd <= 0: raise ValueError("Trade size must be positive")
RaiseValueError ==
    /\ pc = "start"
    /\ RejectsSize(trade_size_usd)
    /\ outcome' = InvalidSize
    /\ pc' = "done"
    /\ UNCHANGED <<orderbook, side, trade_size_usd, idx, remaining_notional,
                   total_cost, total_shares, rounded, taken,
                   metrics_in, scenario, beta_in, beta_out>>

\* remaining_notional = trade_size_usd; total_cost = 0.0; total_shares = 0.0
EnterLoop ==
    /\ pc = "start"
    /\ ~RejectsSize(trade_size_usd)
    /\ SetTotals(StartTotals(trade_size_usd))
    /\ idx' = 1
    /\ pc' = "loop"
    /\ UNCHANGED <<orderbook, side, trade_size_usd, outcome,
                   metrics_in, scenario, beta_in, beta_out>>

\* if level_notional <= 0: continue
SkipLevel ==
    /\ pc = "loop"
    /\ idx <= Len(Levels)
    /\ SkipsLevel(Levels[idx])
    /\ SetTotals(LoopBody(Cur, Levels[idx]))
    /\ idx' = idx + 1
    /\ UNCHANGED <<orderbook, side, trade_size_usd, pc, outcome,
                   metrics_in, scenario, beta_in, beta_out>>

\* if remaining_notional <= level_notional: the partial fill, then break
FillLevel ==
    /\ pc = "loop"
    /\ idx <= Len(Levels)
    /\ ~SkipsLevel(Levels[idx])
    /\ FillsAt(remaining_notional, Levels[idx])
    /\ SetTotals(LoopBody(Cur, Levels[idx]))
    /\ idx' = idx + 1
    /\ pc' = "post"
    /\ UNCHANGED <<orderbook, side, trade_size_usd, outcome,
                   metrics_in, scenario, beta_in, beta_out>>

\* otherwise the whole level is consumed and the loop goes on
ConsumeLevel ==
    /\ pc = "loop"
    /\ idx <= Len(Levels)
    /\ ~SkipsLevel(Levels[idx])
    /\ ~FillsAt(remaining_notional, Levels[idx])
    /\ SetTotals(LoopBody(Cur, Levels[idx]))
    /\ idx' = idx + 1
    /\ UNCHANGED <<orderbook, side, trade_size_usd, pc, outcome,
                   metrics_in, scenario, beta_in, beta_out>>

\* the for loop runs out of levels
ExhaustLevels ==
    /\ pc = "loop"
    /\ idx > Len(Levels)
    /\ pc' = "post"
    /\ UNCHANGED <<orderbook, side, trade_size_usd, idx, remaining_notional,
                   total_cost, total_shares, outcome, rounded, taken,
                   metrics_in, scenario, beta_in, beta_out>>

Finish(o) ==
    /\ outcome' = o
    /\ rounded' = o.rounded
    /\ pc' = "done"
    /\ UNCHANGED <<orderbook, side, trade_size_usd, idx, remaining_notional,
                   total_cost, total_shares, taken,
                   metrics_in, scenario, beta_in, beta_out>>

\* if remaining_notional > 0: raise OrderbookDepthError(...)
RaiseDepthInsufficient ==
    /\ pc = "post"
    /\ PostLoop(Cur).kind = "OrderbookDepthError"
    /\ PostLoop(Cur).msg = "Orderbook depth insufficient for trade size"
    /\ Finish(PostLoop(Cur))

\* if total_shares <= 0: raise OrderbookDepthError("Orderbook has no liquidity")
RaiseNoLiquidity ==
    /\ pc = "post"
    /\ PostLoop(Cur).kind = "OrderbookDepthError"
    /\ PostLoop(Cur).msg = "Orderbook has no liquidity"
    /\ Finish(PostLoop(Cur))

\* return total_cost / total_shares
ReturnPrice ==
    /\ pc = "post"
    /\ PostLoop(Cur).kind = "return"
    /\ Finish(PostLoop(Cur))

Next ==
    \/ RaiseValueError
    \/ EnterLoop
    \/ SkipLevel
    \/ FillLevel
    \/ ConsumeLevel
    \/ ExhaustLevels
    \/ RaiseDepthInsufficient
    \/ RaiseNoLiquidity
    \/ ReturnPrice

Spec == Init /\ [][Next]_vars

\* The step-by-step call and the function agree.
StepsAgree ==
    pc = "done" => outcome = calculate_effective_price(orderbook, side, trade_size_usd)

(***************************************************************************)
(* compute_trade_metrics                                                   *)
(***************************************************************************)
\* The literal 1e-6: the float nearest to 10^-6.
Eps == Round(<<1, 1000000>>)

\* 1 - 2^-21 lies within 1e-6 of 1.  A double holds it; a float of MantBits
\* bits does not, so it is met as an entry price only (the code's first
\* operations on the price, 1.0 - price and probability - price, round their
\* results as any other).
NearOne == <<Pow2(21) - 1, Pow2(21)>>

MetricValues ==
    {<<-1, 2>>, Zero, <<1, 4>>, <<1, 2>>, <<3, 4>>, <<127, 128>>, One, <<3, 2>>}

EntryPrices == MetricValues \cup {NearOne}

TradeSizes == {<<-10, 1>>, Zero, <<250, 1>>}

\* Mutant: the entry price is used as given.
ClampedPrice_Raw(entry_price) == entry_price

\* price = float(np.clip(entry_price, 0.0, 1.0))
ClampedPrice(entry_price) == Clip(entry_price, Zero, One)

\* Mutant: the target probability is used as given.
ClampedProbability_Raw(target_probability) == target_probability

\* probability = float(np.clip(target_probability, 0.0, 1.0))
ClampedProbability(target_probability) == Clip(target_probability, Zero, One)

\* ev = (probability * 1.0) - price
ExpectedValue(probability, price) == FSub(FMul(probability, One), price)

\* Mutant: the denominator is 1 - price, without its floor.
KellyDenominator_NoFloor(price) == FSub(One, price)

\* denominator = max(1.0 - price, 1e-6)
KellyDenominator(price) == RMax(FSub(One, price), Eps)

\* kelly_fraction = max(0.0, ev / denominator)
KellyFraction(ev, denominator) == RMax(Zero, FDiv(ev, denominator))

\* The call: a TradeScenario, or the ZeroDivisionError of ev / 0.0.
compute_trade_metrics(entry_price, target_probability, trade_size) ==
    LET price == ClampedPrice(entry_price)
        probability == ClampedProbability(target_probability)
        ev == ExpectedValue(probability, price)
        denominator == KellyDenominator(price)
    IN  IF denominator = Zero
        THEN [kind |-> "ZeroDivisionError"]
        ELSE [kind |-> "return",
              trade_size_usd |-> trade_size,
              belief_probability |-> probability,
              effective_entry_price |-> price,
              ev_percentage |-> FMul(ev, Hundred),
              kelly_fraction |-> KellyFraction(ev, denominator)]

walk_idle ==
    /\ orderbook = [bids |-> <<>>, asks |-> <<>>]
    /\ side = BUY
    /\ trade_size_usd = Unset
    /\ pc = "idle"
    /\ idx = 0
    /\ remaining_notional = Unset
    /\ total_cost = Unset
    /\ total_shares = Unset
    /\ outcome = NoOutcome
    /\ rounded = FALSE
    /\ taken = <<>>

InitMetrics ==
    /\ metrics_in \in [kind : {"args"},
                       entry_price : EntryPrices,
                       target_probability : MetricValues,
                       trade_size : TradeSizes]
    /\ scenario = NoCall
    /\ beta_in = NoCall /\ beta_out = NoCall
    /\ walk_idle

ComputeTradeMetrics ==
    /\ metrics_in.kind = "args"
    /\ scenario.kind = "none"
    /\ scenario' = compute_trade_metrics(metrics_in.entry_price,
                                         metrics_in.target_probability,
                                         metrics_in.trade_size)
    /\ UNCHANGED <<walk_vars, metrics_in, beta_in, beta_out>>

NextMetrics == ComputeTradeMetrics

SpecMetrics == InitMetrics /\ [][NextMetrics]_vars

(***************************************************************************)
(* BetaModel.parameters                                                    *)
(***************************************************************************)
Beliefs ==
    {<<-1, 2>>, Zero, <<1, 4>>, <<43, 128>>, <<1, 2>>, <<3, 4>>, One, <<3, 2>>}

Strengths ==
    {<<-1, 1>>, Zero, One, <<3, 2>>, <<3, 1>>, <<25, 1>>, Hundred, <<101, 1>>,
     <<200, 1>>}

\* belief = np.clip(self.belief_probability, 0.0, 1.0)
ClampedBelief(belief_probability) == Clip(belief_probability, Zero, One)

\* Mutant: the strength is clamped to [0, 100].
ClampedStrength_FromZero(confidence_strength) ==
    Clip(confidence_strength, Zero, Hundred)

\* strength = np.clip(self.confidence_strength, 1.0, 100.0)
ClampedStrength(confidence_strength) == Clip(confidence_strength, One, Hundred)

\* alpha = belief * strength + 1.0
Alpha(belief, strength) == FAdd(FMul(belief, strength), One)

\* beta = (1.0 - belief) * strength + 1.0
Beta(belief, strength) == FAdd(FMul(FSub(One, belief), strength), One)

\* The method: it has no raise and no branch.
parameters(belief_probability, confidence_strength) ==
    LET belief == ClampedBelief(belief_probability)
        strength == ClampedStrength(confidence_strength)
    IN  [kind |-> "return",
         alpha |-> Alpha(belief, strength),
         beta |-> Beta(belief, strength)]

InitBeta ==
    /\ beta_in \in [kind : {"args"},
                    belief_probability : Beliefs,
                    confidence_strength : Strengths]
    /\ beta_out = NoCall
    /\ metrics_in = NoCall /\ scenario = NoCall
    /\ walk_idle

Parameters ==
    /\ beta_in.kind = "args"
    /\ beta_out.kind = "none"
    /\ beta_out' = parameters(beta_in.belief_probability,
                              beta_in.confidence_strength)
    /\ UNCHANGED <<walk_vars, metrics_in, scenario, beta_in>>

NextBeta == Parameters

SpecBeta == InitBeta /\ [][NextBeta]_vars

(***************************************************************************)
(* What the claims speak of.                                               *)
(***************************************************************************)
\* price in (0,1] and size >= 0
IsValidLevel(l) == RLt(Zero, l.price) /\ RLeq(l.price, One) /\ RLeq(Zero, l.size)

ValidSide(levels) == \A i \in 1..Len(levels) : IsValidLevel(levels[i])

Ascending(levels) ==
    \A i \in 1..(Len(levels) - 1) : RLeq(levels[i].price, levels[i + 1].price)

Descending(levels) ==
    \A i \in 1..(Len(levels) - 1) : RLeq(levels[i + 1].price, levels[i].price)

\* The side of the book the call is to walk respects the data model and its
\* stated ordering: asks ascending, bids descending.
WellOrdered ==
    IF side = BUY
    THEN ValidSide(orderbook.asks) /\ Ascending(orderbook.asks)
    ELSE ValidSide(orderbook.bids) /\ Descending(orderbook.bids)

\* L: the exact sum of price * size over the levels.
RECURSIVE Liquidity(_)
Liquidity(levels) ==
    IF levels = <<>> THEN Zero
    ELSE RAdd(RMul(Head(levels).price, Head(levels).size), Liquidity(Tail(levels)))

\* price * size <= 0: phantom liquidity.
NonPositive(l) == RLeq(FMul(l.price, l.size), Zero)

\* The levels read that hold liquidity: consumed in full or in part.
ConsumedIdx == {i \in 1..Len(taken) : ~NonPositive(Levels[i])}

Returned == pc = "done" /\ outcome.kind = "return"

PriceWithinConsumed ==
    \E i, j \in ConsumedIdx :
        /\ RLeq(Levels[i].price, outcome.price)
        /\ RLeq(outcome.price, Levels[j].price)

C1_Case ==
    /\ pc = "done"
    /\ side = BUY
    /\ ValidSide(orderbook.asks)
    /\ RLt(Zero, trade_size_usd)

C1_Body ==
    IF RLeq(trade_size_usd, Liquidity(orderbook.asks))
    THEN outcome.kind = "return" /\ PriceWithinConsumed
    ELSE outcome.kind = "OrderbookDepthError"

\* C1 as claimed: on a valid ask side and n > 0, BUY returns a price within
\* [min, max] of the consumed ask prices when n <= L, and raises
\* OrderbookDepthError when n > L.
C1_Original == C1_Case => C1_Body

\* C1 amended: the same, whenever no floating-point operation of the call
\* rounded its result.
C1_Amended == (C1_Case /\ ~outcome.rounded) => C1_Body

\* A two-level BUY fill without rounding whose price lies strictly between
\* the two ask prices.
C1_Witness ==
    /\ C1_Case /\ ~outcome.rounded /\ outcome.kind = "return"
    /\ Cardinality(ConsumedIdx) = 2
    /\ \E i, j \in ConsumedIdx :
          RLt(Levels[i].price, outcome.price) /\ RLt(outcome.price, Levels[j].price)

\* The other half of C1's case: the ask side cannot absorb n, without rounding.
C1_WitnessDepth ==
    /\ C1_Case /\ ~outcome.rounded /\ outcome.kind = "OrderbookDepthError"
    /\ Len(orderbook.asks) = MaxLevels
    /\ RLt(Zero, Liquidity(orderbook.asks))

\* Two calls end alike: the same price returned or the same error raised.
SameResult(a, b) ==
    /\ a.kind = b.kind
    /\ a.kind = "return" => a.price = b.price
    /\ a.kind # "return" => a.msg = b.msg

\* The order book with the walked side replaced by `levels`.
BookWith(levels) ==
    IF side = BUY THEN [orderbook EXCEPT !.asks = levels]
                  ELSE [orderbook EXCEPT !.bids = levels]

Prefix(levels, k) == SubSeq(levels, 1, k)

C2_Case == Returned /\ WellOrdered

C2_Body(guarded) ==
    \A n2 \in Notionals :
        LET r2 == calculate_effective_price(orderbook, side, n2) IN
        (/\ RLeq(trade_size_usd, n2)
         /\ r2.kind = "return"
         /\ guarded => ~r2.rounded)
        => IF side = BUY THEN RLeq(outcome.price, r2.price)
                         ELSE RLeq(r2.price, outcome.price)

C3_Theorem ==
    (RLeq(trade_size_usd, Zero) /\ pc # "start") =>
        /\ pc = "done"
        /\ outcome.kind = "ValueError"
        /\ outcome.kind # "OrderbookDepthError"
        /\ idx = 0
        /\ taken = <<>>
        /\ remaining_notional = Unset
        /\ total_cost = Unset
        /\ total_shares = Unset

\* A zero notional on an empty side is rejected as invalid input.
C3_Witness ==
    /\ pc = "done"
    /\ trade_size_usd = Zero
    /\ Levels = <<>>
    /\ outcome.kind = "ValueError"

NonPositiveFree(l) == ~NonPositive(l)

\* The book without the levels of price * size <= 0.
Filtered(levels) == SelectSeq(levels, NonPositiveFree)

FilteredBook == [asks |-> Filtered(orderbook.asks), bids |-> Filtered(orderbook.bids)]

C7_Outcome ==
    pc = "done" =>
        SameResult(outcome,
                   calculate_effective_price(FilteredBook, side, trade_size_usd))

C7_Frame ==
    (pc = "loop" /\ idx <= Len(Levels) /\ NonPositive(Levels[idx])) =>
        /\ UNCHANGED <<remaining_notional, total_cost, total_shares>>
        /\ outcome' = NoOutcome /\ pc' = "loop" /\ idx' = idx + 1

\* C7: a level with price * size <= 0 is passed over without raising and with
\* the three running totals unchanged, and every call ends as it does on the
\* book with those levels removed.
C7_Theorem == []C7_Outcome /\ [][C7_Frame]_vars

\* A price returned after the walk passed a level of price 0 and size 2.
C7_Witness ==
    /\ Returned
    /\ \E i \in 1..Len(taken) :
          /\ NonPositive(Levels[i]) /\ Levels[i].size # Zero
          /\ \E j \in ConsumedIdx : i < j

\* The call broke out of the loop on a partial fill.
Filled == pc = "done" /\ remaining_notional = Zero

\* remaining_notional before level i is read.
RemBefore(i) ==
    WalkFrom(Prefix(Levels, i - 1), 1, StartTotals(trade_size_usd)).remaining_notional

RECURSIVE SumShares(_)
SumShares(tk) ==
    IF tk = <<>> THEN Zero
    ELSE FAdd(SumShares(SubSeq(tk, 1, Len(tk) - 1)), tk[Len(tk)])

\* C8: the walk stops at the first level k whose notional covers what
\* remains; level k gives remaining / price_k shares, each earlier level its
\* full size or nothing when skipped, no later level is read, and the result
\* does not depend on the levels after k.
C8_Theorem ==
    Filled =>
        LET k == Len(taken) IN
        /\ k >= 1 /\ idx = k + 1
        /\ ~NonPositive(Levels[k])
        /\ RLeq(RemBefore(k), FMul(Levels[k].price, Levels[k].size))
        /\ \A i \in 1..(k - 1) :
              \/ NonPositive(Levels[i])
              \/ RLt(FMul(Levels[i].price, Levels[i].size), RemBefore(i))
        /\ taken[k] = FDiv(RemBefore(k), Levels[k].price)
        /\ \A i \in 1..(k - 1) :
              taken[i] = IF NonPositive(Levels[i]) THEN Zero ELSE Levels[i].size
        /\ total_shares = SumShares(taken)
        /\ SameResult(outcome,
                      calculate_effective_price(BookWith(Prefix(Levels, k)),
                                                side, trade_size_usd))
        /\ \A j \in (k + 1)..Len(Levels), l \in LevelSet :
              SameResult(outcome,
                         calculate_effective_price(
                             BookWith([Levels EXCEPT ![j] = l]),
                             side, trade_size_usd))

\* asks [(0.25, 2), (0.75, 5)] with notional 2: the first level is taken whole
\* (2 shares for 0.5), the second gives 1.5 / 0.75 = 2 of its 5 shares:
\* 4 shares for a cost of 2, price 0.5.
C8_Witness ==
    /\ Filled /\ side = BUY /\ trade_size_usd = <<2, 1>>
    /\ Levels = <<Level(<<1, 4>>, <<2, 1>>), Level(<<3, 4>>, <<5, 1>>)>>
    /\ taken = <<<<2, 1>>, <<2, 1>>>>
    /\ total_shares = <<4, 1>> /\ total_cost = <<2, 1>>
    /\ outcome.kind = "return" /\ outcome.price = <<1, 2>>

\* The running totals are assigned: the call passed its size check.
InWalk == pc \in {"loop", "post", "done"} /\ outcome.kind # "ValueError"

RemainingInRange ==
    RLeq(Zero, remaining_notional) /\ RLeq(remaining_notional, trade_size_usd)

\* C9 as claimed: after every iteration total_cost + remaining_notional is
\* trade_size_usd and 0 <= remaining_notional <= trade_size_usd; a returning
\* call has total_cost = trade_size_usd and returns trade_size_usd / total_shares.
C9_Original ==
    InWalk =>
        /\ RemainingInRange
        /\ RAdd(total_cost, remaining_notional) = trade_size_usd
        /\ Returned => /\ total_cost = trade_size_usd
                       /\ outcome.price = FDiv(trade_size_usd, total_shares)

\* C9 amended: 0 <= remaining_notional <= trade_size_usd always; the sum and
\* the two consequences hold whenever no floating-point operation of the call
\* rounded its result.
C9_Amended ==
    InWalk =>
        /\ RemainingInRange
        /\ ~rounded => RAdd(total_cost, remaining_notional) = trade_size_usd
        /\ (Returned /\ ~rounded) =>
              /\ total_cost = trade_size_usd
              /\ outcome.price = RDiv(trade_size_usd, total_shares)

\* A return after a whole level and a partial one, without rounding.
C9_Witness ==
    /\ Returned /\ ~rounded
    /\ Cardinality(ConsumedIdx) = 2
    /\ total_cost = trade_size_usd

(***************************************************************************)
(* compute_trade_metrics and BetaModel.parameters: what the claims speak of.*)
(***************************************************************************)
MetricsDone == scenario.kind # "none"

PriceC == Clip(metrics_in.entry_price, Zero, One)
ProbC == Clip(metrics_in.target_probability, Zero, One)

\* The denominator the division used.
DenomC == RMax(FSub(One, PriceC), Eps)

\* C4: for every input the scenario is returned (no division by zero), with
\* kelly_fraction >= 0, kelly_fraction = 0 when the clamped probability is at
\* most the clamped price, and the quotient taken over max(1 - price, 1e-6).
C4_Theorem ==
    MetricsDone =>
        /\ scenario.kind = "return"
        /\ RLt(Zero, DenomC)
        /\ PriceC = One => DenomC = Eps
        /\ scenario.kelly_fraction = RMax(Zero, FDiv(FSub(ProbC, PriceC), DenomC))
        /\ RLeq(Zero, scenario.kelly_fraction)
        /\ RLeq(ProbC, PriceC) => scenario.kelly_fraction = Zero

\* An entry price above 1 is clamped to 1, the floor is the denominator, and
\* the negative edge gives a Kelly fraction of 0.
C4_Witness ==
    /\ MetricsDone
    /\ metrics_in.entry_price = <<3, 2>>
    /\ metrics_in.target_probability = <<3, 4>>
    /\ scenario.kind = "return"
    /\ scenario.kelly_fraction = Zero

\* C5: both arguments are clamped to [0,1] independently, the scenario carries
\* the clamped values, ev_percentage is 100 times their difference (so within
\* [-100, 100]) and trade_size_usd is the argument as given.
C5_Theorem ==
    MetricsDone =>
        /\ scenario.kind = "return"
        /\ scenario.effective_entry_price = PriceC
        /\ scenario.belief_probability = ProbC
        /\ scenario.ev_percentage = FMul(FSub(ProbC, PriceC), Hundred)
        /\ ~Rounds(RSub(ProbC, PriceC)) /\ ~Rounds(RMul(RSub(ProbC, PriceC), Hundred))
              => scenario.ev_percentage = RMul(RSub(ProbC, PriceC), Hundred)
        /\ RLeq(<<-100, 1>>, scenario.ev_percentage)
        /\ RLeq(scenario.ev_percentage, Hundred)
        /\ scenario.trade_size_usd = metrics_in.trade_size

\* Price 1.5 and probability -0.5 are clamped to 1 and 0, each on its own, and
\* a negative trade size passes through: ev_percentage is -100.
C5_Witness ==
    /\ MetricsDone
    /\ metrics_in.entry_price = <<3, 2>>
    /\ metrics_in.target_probability = <<-1, 2>>
    /\ metrics_in.trade_size = <<-10, 1>>
    /\ scenario.effective_entry_price = One
    /\ scenario.belief_probability = Zero
    /\ scenario.ev_percentage = <<-100, 1>>
    /\ scenario.trade_size_usd = <<-10, 1>>

\* C10: the Kelly fraction returned is at most 1.
C10_Theorem ==
    MetricsDone => scenario.kind = "return" /\ RLeq(scenario.kelly_fraction, One)

\* A price below 1 and within 1e-6 of it: the floor is the denominator, the
\* edge is positive and the Kelly fraction lies strictly between 0 and 1.
C10_Witness ==
    /\ MetricsDone
    /\ RLt(PriceC, One) /\ RLt(FSub(One, PriceC), Eps)
    /\ ProbC = One
    /\ RLt(Zero, scenario.kelly_fraction) /\ RLt(scenario.kelly_fraction, One)

BetaDone == beta_out.kind # "none"

BeliefC == Clip(beta_in.belief_probability, Zero, One)
StrengthC == Clip(beta_in.confidence_strength, One, Hundred)

\* One of the five operations of the method rounded its result.
BetaRounded ==
    \/ Rounds(RMul(BeliefC, StrengthC))
    \/ Rounds(RAdd(FMul(BeliefC, StrengthC), One))
    \/ Rounds(RSub(One, BeliefC))
    \/ Rounds(RMul(FSub(One, BeliefC), StrengthC))
    \/ Rounds(RAdd(FMul(FSub(One, BeliefC), StrengthC), One))

C6_Always ==
    /\ beta_out.kind = "return"
    /\ beta_out.alpha = FAdd(FMul(BeliefC, StrengthC), One)
    /\ beta_out.beta = FAdd(FMul(FSub(One, BeliefC), StrengthC), One)
    /\ RLeq(One, beta_out.alpha) /\ RLeq(beta_out.alpha, <<101, 1>>)
    /\ RLeq(One, beta_out.beta) /\ RLeq(beta_out.beta, <<101, 1>>)

C6_Sum == RAdd(beta_out.alpha, beta_out.beta) = RAdd(StrengthC, <<2, 1>>)

\* C6 as claimed: no input is rejected; alpha = b*s + 1 and beta = (1-b)*s + 1
\* on the clamped b and s, both in [1, 101], and alpha + beta = s + 2.
C6_Original == BetaDone => C6_Always /\ C6_Sum

\* C6 amended: the same, with alpha + beta = s + 2 whenever no floating-point
\* operation of the method rounded its result.
C6_Amended == BetaDone => C6_Always /\ (~BetaRounded => C6_Sum)

\* Belief 1.5 and strength 200 are clamped to 1 and 100: alpha = 101, beta = 1.
C6_Witness ==
    /\ BetaDone
    /\ beta_in.belief_probability = <<3, 2>>
    /\ beta_in.confidence_strength = <<200, 1>>
    /\ ~BetaRounded
    /\ beta_out.alpha = <<101, 1>> /\ beta_out.beta = One

====
